---------------------------- MODULE Spec2Model ----------------------------
(***************************************************************************)
(* A model of preseason_app.py: the cached CSV loader, the player-name     *)
(* suggester and the three week-aware aggregations over the play catalog   *)
(* (plays_unique.csv) and the participation table (play_players.csv).      *)
(*                                                                         *)
(* Text is modelled as a sequence of one-character strings, so that        *)
(* lower(), strip(), startswith(), sorted() and ", ".join() are computed   *)
(* character by character as Python computes them.                         *)
(***************************************************************************)
EXTENDS Integers, Sequences, FiniteSets, TLC

VARIABLES
    \* ---- loader (file system, st.cache_data, outcome of the last run)
    disk,            \* the data folder: [dir, now, files], now the clock
    csv_cache,       \* memo of load_csv: set of [path, fingerprint, table]
    all_cache,       \* memo of load_all: set of [data_dir, tables]
    loaded,          \* <<plays, pp, idx>> of the last script run, or <<>>
    halted,          \* the last script run ended in st.stop() before loading
    cleared,         \* the "Refresh data" button has been pressed
    \* ---- suggester
    all_names,       \* the known names handed to get_player_suggestions
    query,           \* the text typed in "Search player"
    limit,           \* parameter n of get_player_suggestions
    suggestions,     \* its result
    \* ---- aggregations
    plays_df,        \* play catalog: sequence of play rows
    pp_df,           \* participation table: sequence of participation rows
    weeks_selected,  \* the week multiselect
    player_name,     \* the chosen player, NoPlayer before one is chosen
    snaps, teams, poss,   \* result of pass_rush_snaps_for_weeks
    cop,             \* result of coplayer_counts_for_weeks
    plays_involving  \* result of get_player_plays

loadVars  == <<disk, csv_cache, all_cache, loaded, halted, cleared>>
nameVars  == <<all_names, query, limit, suggestions>>
queryVars == <<plays_df, pp_df, weeks_selected, player_name,
               snaps, teams, poss, cop, plays_involving>>
vars      == <<loadVars, nameVars, queryVars>>

---------------------------------------------------------------------------
(* Text                                                                    *)

\* The characters in use, in increasing code-point order (Python compares
\* str values code point by code point).
Ascii ==
    << " ", ",", "-", "0", "1", "2", "3", "4", "5", "6", "7", "8", "9",
       "A", "B", "C", "D", "E", "F", "G", "H", "I", "J", "K", "L", "M",
       "N", "O", "P", "Q", "R", "S", "T", "U", "V", "W", "X", "Y", "Z", "_",
       "a", "b", "c", "d", "e", "f", "g", "h", "i", "j", "k", "l", "m",
       "n", "o", "p", "q", "r", "s", "t", "u", "v", "w", "x", "y", "z" >>

Upper == << "A", "B", "C", "D", "E", "F", "G", "H", "I", "J", "K", "L", "M",
            "N", "O", "P", "Q", "R", "S", "T", "U", "V", "W", "X", "Y", "Z" >>
Lower == << "a", "b", "c", "d", "e", "f", "g", "h", "i", "j", "k", "l", "m",
            "n", "o", "p", "q", "r", "s", "t", "u", "v", "w", "x", "y", "z" >>

\* ord(c), up to the order of the characters in use
CodeOf == [c \in {Ascii[i] : i \in 1..Len(Ascii)} |->
              CHOOSE i \in 1..Len(Ascii) : Ascii[i] = c]
Code(c) == CodeOf[c]

LowerOf == [c \in {Upper[i] : i \in 1..Len(Upper)} |->
               Lower[CHOOSE i \in 1..Len(Upper) : Upper[i] = c]]
LowerChar(c) == IF c \in DOMAIN LowerOf THEN LowerOf[c] ELSE c

\* str.lower()
lower(s) == [i \in 1..Len(s) |-> LowerChar(s[i])]

\* str.startswith(p)
startswith(s, p) == Len(p) <= Len(s) /\ SubSeq(s, 1, Len(p)) = p

\* s < t for str
RECURSIVE StrLess(_, _)
StrLess(s, t) ==
    IF t = <<>> THEN FALSE
    ELSE IF s = <<>> THEN TRUE
    ELSE IF s[1] = t[1] THEN StrLess(Tail(s), Tail(t))
    ELSE Code(s[1]) < Code(t[1])

\* str.strip(): whitespace removed at both ends
RECURSIVE LStrip(_)
LStrip(s) == IF s # <<>> /\ s[1] = " " THEN LStrip(Tail(s)) ELSE s
RECURSIVE RStrip(_)
RStrip(s) ==
    IF s # <<>> /\ s[Len(s)] = " " THEN RStrip(SubSeq(s, 1, Len(s) - 1)) ELSE s
strip(s) == RStrip(LStrip(s))

\* sep.join(parts)
RECURSIVE join(_, _)
join(sep, parts) ==
    IF parts = <<>> THEN <<>>
    ELSE IF Len(parts) = 1 THEN parts[1]
    ELSE parts[1] \o sep \o join(sep, Tail(parts))

\* sorted(list of str): insertion sort, stable
RECURSIVE InsertStr(_, _)
InsertStr(x, xs) ==
    IF xs = <<>> THEN <<x>>
    ELSE IF StrLess(x, xs[1]) THEN <<x>> \o xs
    ELSE <<xs[1]>> \o InsertStr(x, Tail(xs))
RECURSIVE sorted(_)
sorted(xs) ==
    IF xs = <<>> THEN <<>>
    ELSE InsertStr(xs[Len(xs)], sorted(SubSeq(xs, 1, Len(xs) - 1)))

\* sorted(set of str)
RECURSIVE SortedSet(_)
SortedSet(S) ==
    IF S = {} THEN <<>>
    ELSE LET m == CHOOSE x \in S : \A y \in S : y = x \/ StrLess(x, y)
         IN  <<m>> \o SortedSet(S \ {m})

\* xs[:n]
Take(xs, n) == SubSeq(xs, 1, IF Len(xs) < n THEN Len(xs) ELSE n)

Range(xs) == {xs[i] : i \in 1..Len(xs)}

\* first occurrences, in order (the seen/out loop, drop_duplicates, unique)
RECURSIVE Dedup(_)
Dedup(xs) ==
    IF xs = <<>> THEN <<>>
    ELSE LET init == Dedup(SubSeq(xs, 1, Len(xs) - 1))
             x    == xs[Len(xs)]
         IN  IF x \in Range(init) THEN init ELSE Append(init, x)

---------------------------------------------------------------------------
(* get_player_suggestions                                                  *)

\* (s or "").strip()
normalize(s) == strip(s)

\* length of the common run of a from i and b from j (0-based, below ahi, bhi)
RECURSIVE RunLen(_, _, _, _, _, _)
RunLen(a, b, i, j, ahi, bhi) ==
    IF i < ahi /\ j < bhi /\ a[i + 1] = b[j + 1]
    THEN 1 + RunLen(a, b, i + 1, j + 1, ahi, bhi)
    ELSE 0

\* SequenceMatcher.find_longest_match without junk: the longest block, of
\* those the one starting earliest in a, of those the earliest in b
find_longest_match(a, b, alo, ahi, blo, bhi) ==
    LET I == alo..(ahi - 1)
        J == blo..(bhi - 1)
        lens == {RunLen(a, b, i, j, ahi, bhi) : i \in I, j \in J} \cup {0}
        k == CHOOSE m \in lens : \A l \in lens : l <= m
    IN  IF k = 0 THEN <<alo, blo, 0>>
        ELSE LET i == CHOOSE x \in I :
                        /\ \E j \in J : RunLen(a, b, x, j, ahi, bhi) = k
                        /\ \A y \in I : (\E j \in J : RunLen(a, b, y, j, ahi, bhi) = k)
                                           => x <= y
                 j == CHOOSE x \in J :
                        /\ RunLen(a, b, i, x, ahi, bhi) = k
                        /\ \A y \in J : RunLen(a, b, i, y, ahi, bhi) = k => x <= y
             IN  <<i, j, k>>

\* sum of the sizes of SequenceMatcher.get_matching_blocks
RECURSIVE Matches(_, _, _, _, _, _)
Matches(a, b, alo, ahi, blo, bhi) ==
    LET m == find_longest_match(a, b, alo, ahi, blo, bhi)
    IN  IF m[3] = 0 THEN 0
        ELSE m[3] + Matches(a, b, alo, m[1], blo, m[2])
                  + Matches(a, b, m[1] + m[3], ahi, m[2] + m[3], bhi)

\* SequenceMatcher(None, x, word).ratio() = 2.0*M/T, kept as <<2M, T>>
ratio(x, word) == <<2 * Matches(x, word, 0, Len(x), 0, Len(word)), Len(x) + Len(word)>>

\* ratio >= cutoff, cutoff = 0.6 = 3/5
CutoffNum == 3
CutoffDen == 5
AtLeastCutoff(r) == r[1] * CutoffDen >= CutoffNum * r[2]

\* (score1, x1) > (score2, x2) as Python compares tuples
ScoredGreater(p, q) ==
    LET l == p.score[1] * q.score[2]
        r == q.score[1] * p.score[2]
    IN  l > r \/ (l = r /\ StrLess(q.x, p.x))

RECURSIVE InsertScored(_, _)
InsertScored(p, ps) ==
    IF ps = <<>> THEN <<p>>
    ELSE IF ScoredGreater(p, ps[1]) THEN <<p>> \o ps
    ELSE <<ps[1]>> \o InsertScored(p, Tail(ps))
RECURSIVE SortScoredDesc(_)
SortScoredDesc(ps) ==
    IF ps = <<>> THEN <<>>
    ELSE InsertScored(ps[Len(ps)], SortScoredDesc(SubSeq(ps, 1, Len(ps) - 1)))

\* difflib.get_close_matches(word, possibilities, n, cutoff=0.6)
get_close_matches(word, possibilities, n) ==
    LET scored == [i \in 1..Len(possibilities) |->
                     [score |-> ratio(possibilities[i], word), x |-> possibilities[i]]]
        result == SelectSeq(scored, LAMBDA p : AtLeastCutoff(p.score))
        best   == Take(SortScoredDesc(result), n)
    IN  [i \in 1..Len(best) |-> best[i].x]

PrefixMatches(q, names) ==
    SelectSeq(names, LAMBDA nm : startswith(lower(nm), lower(q)))

get_player_suggestions(qry, names, n) ==
    LET q == normalize(qry)
    IN  IF q = <<>> THEN <<>>
        ELSE LET prefix == PrefixMatches(q, names)
             IN  IF Len(prefix) >= n THEN Take(sorted(prefix), n)
                 ELSE Take(Dedup(prefix \o get_close_matches(q, names, n)), n)

---------------------------------------------------------------------------
(* Cache-busting helper and caching loaders                                *)

DATA_DIR_DEFAULT == <<"d", "a", "t", "a">>

PlaysFile == "plays_unique.csv"
PpFile    == "play_players.csv"
IdxFile   == "players_index.csv"
Files     == <<PlaysFile, PpFile, IdxFile>>
FileSet   == Range(Files)

\* Bounds of the file-system model
MaxWrites == 2      \* writes to the folder during a session
MaxBody   == 2      \* distinct data sections a file may hold

\* A CSV file: a header line (possibly padded with blanks) and data
Headers == { <<"i", "d">>, <<" ", "i", "d">> }
Bodies  == 1..MaxBody
NoFile  == [exists |-> FALSE, hdr |-> <<>>, body |-> 0, mtime |-> 0]
FileOf(h, b, t) == [exists |-> TRUE, hdr |-> h, body |-> b, mtime |-> t]

\* st_size: the header line plus the data section
st_size(file) == Len(file.hdr) + file.body

Digits == << "0", "1", "2", "3", "4", "5", "6", "7", "8", "9" >>
\* str(n) for n >= 0
RECURSIVE str(_)
str(n) == IF n < 10 THEN <<Digits[n + 1]>>
          ELSE str(n \div 10) \o <<Digits[(n % 10) + 1]>>

\* f"{stat.st_mtime_ns}-{stat.st_size}", or "missing"
file_fingerprint(d, path) ==
    IF d.files[path].exists
    THEN str(d.files[path].mtime) \o <<"-">> \o str(st_size(d.files[path]))
    ELSE <<"m", "i", "s", "s", "i", "n", "g">>

\* pd.read_csv(path): the parsed table, or FileNotFoundError
read_csv(d, path) ==
    IF d.files[path].exists
    THEN [ok |-> TRUE,
          table |-> [columns |-> d.files[path].hdr, data |-> d.files[path].body]]
    ELSE [ok |-> FALSE, table |-> [columns |-> <<>>, data |-> 0]]

\* @st.cache_data load_csv(path, fingerprint): a memoized value for the
\* same arguments is returned without running the body; a call that
\* raises stores nothing
load_csv(d, cache, path, fingerprint) ==
    IF \E e \in cache : e.path = path /\ e.fingerprint = fingerprint
    THEN [ok |-> TRUE,
          table |-> (CHOOSE e \in cache :
                        e.path = path /\ e.fingerprint = fingerprint).table,
          cache |-> cache]
    ELSE LET r == read_csv(d, path)
         IN  [ok |-> r.ok, table |-> r.table,
              cache |-> IF r.ok
                        THEN cache \cup {[path |-> path, fingerprint |-> fingerprint,
                                          table |-> r.table]}
                        ELSE cache]

\* df.columns = [c.strip() for c in df.columns]
StripColumns(t) == [t EXCEPT !.columns = strip(t.columns)]

\* the body of load_all: the three load_csv calls in order, the first
\* exception ends it; then the column names are normalized
LoadAllBody(d, cache) ==
    LET p == load_csv(d, cache, PlaysFile, file_fingerprint(d, PlaysFile))
        q == load_csv(d, p.cache, PpFile, file_fingerprint(d, PpFile))
        x == load_csv(d, q.cache, IdxFile, file_fingerprint(d, IdxFile))
    IN  IF ~p.ok THEN [ok |-> FALSE, tables |-> <<>>, cache |-> p.cache]
        ELSE IF ~q.ok THEN [ok |-> FALSE, tables |-> <<>>, cache |-> q.cache]
        ELSE IF ~x.ok THEN [ok |-> FALSE, tables |-> <<>>, cache |-> x.cache]
        ELSE [ok |-> TRUE,
              tables |-> <<StripColumns(p.table), StripColumns(q.table),
                           StripColumns(x.table)>>,
              cache |-> x.cache]

\* @st.cache_data load_all(data_dir): memoized on data_dir alone
load_all(d, csvc, allc, data_dir) ==
    IF \E e \in allc : e.data_dir = data_dir
    THEN [ok |-> TRUE,
          tables |-> (CHOOSE e \in allc : e.data_dir = data_dir).tables,
          csv_cache |-> csvc, all_cache |-> allc]
    ELSE LET r == LoadAllBody(d, csvc)
         IN  [ok |-> r.ok, tables |-> r.tables, csv_cache |-> r.cache,
              all_cache |-> IF r.ok
                            THEN allc \cup {[data_dir |-> data_dir, tables |-> r.tables]}
                            ELSE allc]

\* "Folder" branch of the data-source section: a missing folder or a
\* failed load_all ends the run with st.stop()
FolderRun(d, csvc, allc) ==
    IF ~d.dir
    THEN [halted |-> TRUE, loaded |-> <<>>, csv_cache |-> csvc, all_cache |-> allc]
    ELSE LET r == load_all(d, csvc, allc, DATA_DIR_DEFAULT)
         IN  [halted |-> ~r.ok, loaded |-> r.tables,
              csv_cache |-> r.csv_cache, all_cache |-> r.all_cache]

\* what a fresh parse of the folder's three files gives
FreshTables(d) ==
    [i \in 1..Len(Files) |-> StripColumns(read_csv(d, Files[i]).table)]

InitLoad ==
    /\ disk \in { [dir |-> TRUE, now |-> 0,
                   files |-> [f \in FileSet |->
                                 IF f = IdxFile THEN x ELSE FileOf(h, 1, 0)]] :
                  h \in Headers, x \in {NoFile, FileOf(<<"i", "d">>, 1, 0)} }
    /\ csv_cache = {}
    /\ all_cache = {}
    /\ loaded = <<>>
    /\ halted = FALSE
    /\ cleared = FALSE

\* the preprocessing script (or the user) rewrites a CSV: new content,
\* new modification time
WriteFile(f, h, b) ==
    /\ disk.dir
    /\ disk.now < MaxWrites
    /\ ~(disk.files[f].exists /\ disk.files[f].hdr = h /\ disk.files[f].body = b)
    /\ disk' = [disk EXCEPT !.now = disk.now + 1,
                            !.files[f] = FileOf(h, b, disk.now + 1)]
    /\ UNCHANGED <<csv_cache, all_cache, loaded, halted, cleared, nameVars, queryVars>>

RemoveFile(f) ==
    /\ disk.files[f].exists
    /\ disk' = [disk EXCEPT !.files[f] = NoFile]
    /\ UNCHANGED <<csv_cache, all_cache, loaded, halted, cleared, nameVars, queryVars>>

RemoveDir ==
    /\ disk.dir
    /\ disk' = [disk EXCEPT !.dir = FALSE, !.files = [f \in FileSet |-> NoFile]]
    /\ UNCHANGED <<csv_cache, all_cache, loaded, halted, cleared, nameVars, queryVars>>

\* a script run with "Folder" selected
RunFolder ==
    LET r == FolderRun(disk, csv_cache, all_cache)
    IN  /\ halted' = r.halted
        /\ loaded' = r.loaded
        /\ csv_cache' = r.csv_cache
        /\ all_cache' = r.all_cache
        /\ UNCHANGED <<disk, cleared, nameVars, queryVars>>

\* "Refresh data (clear cache)": st.cache_data.clear(), then st.rerun()
RefreshData ==
    LET r == FolderRun(disk, {}, {})
    IN  /\ halted' = r.halted
        /\ loaded' = r.loaded
        /\ csv_cache' = r.csv_cache
        /\ all_cache' = r.all_cache
        /\ cleared' = TRUE
        /\ UNCHANGED <<disk, nameVars, queryVars>>

\* a script run with "Manual upload" selected: the run stops unless all
\* three files are uploaded; uploaded tables are parsed as they are
RunUpload(up) ==
    /\ IF \A f \in FileSet : up[f].exists
       THEN /\ halted' = FALSE
            /\ loaded' = [i \in 1..Len(Files) |->
                             [columns |-> up[Files[i]].hdr, data |-> up[Files[i]].body]]
       ELSE /\ halted' = TRUE
            /\ loaded' = <<>>
    /\ UNCHANGED <<disk, csv_cache, all_cache, cleared, nameVars, queryVars>>

Uploads ==
    [FileSet -> {NoFile, FileOf(<<" ", "i", "d">>, 1, 0)}]

NextLoad ==
    \/ \E f \in FileSet, h \in Headers, b \in Bodies : WriteFile(f, h, b)
    \/ \E f \in FileSet : RemoveFile(f)
    \/ RemoveDir
    \/ RunFolder
    \/ RefreshData
    \/ \E up \in Uploads : RunUpload(up)

---------------------------------------------------------------------------
(* The suggester as a state machine: the user types, the script reruns    *)

DefaultLimit == 12     \* n=12 in the signature of get_player_suggestions
SmallLimit   == 2      \* a second value of n, small enough to be reached
MaxNames     == 3      \* length of the list of known names

Alice  == <<"A", "l", "i", "c", "e">>
Albert == <<"A", "l", "b", "e", "r", "t">>
Bob    == <<"B", "o", "b">>
KnownNames == {Alice, Albert, Bob}

Queries ==
    { <<"A", "l">>, <<" ", "a", "l", " ">>, <<"A", "l", "i", "s", "e">>,
      <<"B", "o", "b">>, <<"b", "o", "b", "b">>, <<" ">> }

SeqsUpTo(S, n) == UNION {[1..k -> S] : k \in 0..n}

InitNames ==
    /\ all_names \in SeqsUpTo(KnownNames, MaxNames)
    /\ limit \in {SmallLimit, DefaultLimit}
    /\ query = <<>>
    /\ suggestions = <<>>

\* suggestions = get_player_suggestions(query, all_names) if query else []
TypeQuery(q) ==
    /\ q # query
    /\ query' = q
    /\ suggestions' = IF q # <<>> THEN get_player_suggestions(q, all_names, limit)
                      ELSE <<>>
    /\ UNCHANGED <<all_names, limit, loadVars, queryVars>>

NextNames == \E q \in Queries \cup {<<>>} : TypeQuery(q)

---------------------------------------------------------------------------
(* Helpers over the tables                                                 *)

\* A play row is [gameId, nflPlayId, week, nflPlayType]; a participation
\* row is [gameId, nflPlayId, playerName, teamId, position].

NaN    == <<"NaN">>    \* a missing text cell (empty CSV field)
NaNNum == -1           \* a missing numeric cell

RUSH      == <<"R", "U", "S", "H">>
PASS      == <<"P", "A", "S", "S">>
PASS_SACK == <<"P", "A", "S", "S", "_", "S", "A", "C", "K">>
PUNT      == <<"P", "U", "N", "T">>
Unknown   == <<"U", "n", "k", "n", "o", "w", "n">>

RECURSIVE Concat(_)
Concat(xss) == IF xss = <<>> THEN <<>> ELSE xss[1] \o Concat(Tail(xss))

SameKey(r, q) == r.gameId = q.gameId /\ r.nflPlayId = q.nflPlayId

\* df["playerName"].str.lower() == player_name.lower()
NameMatches(name, player) == lower(name) = lower(player)

\* typ = nflPlayType.fillna(""); (typ == "RUSH") | typ.str.startswith("PASS")
pr_filter(df) ==
    SelectSeq(df, LAMBDA r :
        LET typ == IF r.nflPlayType = NaN THEN <<>> ELSE r.nflPlayType
        IN  typ = RUSH \/ startswith(typ, PASS))

\* sorted(w for w in plays_df["week"].dropna().unique())
get_week_options(df) == {df[i].week : i \in 1..Len(df)} \ {NaNNum}

filter_plays_by_weeks(df, weeks) ==
    IF weeks = {} THEN <<>>
    ELSE SelectSeq(df, LAMBDA r : r.week \in weeks)

\* filter_plays_by_weeks(plays_df, weeks_selected) if weeks_selected else plays_df
WeekScoped(df, weeks) ==
    IF weeks # {} THEN filter_plays_by_weeks(df, weeks) ELSE df

\* "limit to weeks + PASS/RUSH": the first two statements of each aggregation
plays_scoped(df, weeks) == pr_filter(WeekScoped(df, weeks))

---------------------------------------------------------------------------
(* get_player_plays                                                        *)

\* sort_values(["gameId","week","nflPlayId"], na_position="last")
PlayBefore(r, q) ==
    \/ r.gameId < q.gameId
    \/ /\ r.gameId = q.gameId
       /\ \/ (r.week # NaNNum /\ (q.week = NaNNum \/ r.week < q.week))
          \/ (r.week = q.week /\ r.nflPlayId < q.nflPlayId)

RECURSIVE InsertPlay(_, _)
InsertPlay(x, xs) ==
    IF xs = <<>> THEN <<x>>
    ELSE IF PlayBefore(x, xs[1]) THEN <<x>> \o xs
    ELSE <<xs[1]>> \o InsertPlay(x, Tail(xs))
RECURSIVE SortPlays(_)
SortPlays(xs) ==
    IF xs = <<>> THEN <<>>
    ELSE InsertPlay(xs[Len(xs)], SortPlays(SubSeq(xs, 1, Len(xs) - 1)))

\* pp_df[name matches][["gameId","nflPlayId"]].drop_duplicates()
PlayerKeys(pp, player) ==
    LET mine == SelectSeq(pp, LAMBDA r : NameMatches(r.playerName, player))
    IN  Dedup([i \in 1..Len(mine) |->
                  [gameId |-> mine[i].gameId, nflPlayId |-> mine[i].nflPlayId]])

get_player_plays(plays, pp, player, weeks) ==
    LET scoped == plays_scoped(plays, weeks)
        target == PlayerKeys(pp, player)
        merged == Concat([i \in 1..Len(target) |->
                            SelectSeq(scoped, LAMBDA q : SameKey(target[i], q))])
    IN  SortPlays(merged)

---------------------------------------------------------------------------
(* coplayer_counts_for_weeks                                               *)

\* pp_df.merge(plays_scoped[["gameId","nflPlayId","week"]], how="inner")
pp_scoped(pp, plays, weeks) ==
    LET scoped == plays_scoped(plays, weeks)
    IN  Concat([i \in 1..Len(pp) |->
                  LET hit == SelectSeq(scoped, LAMBDA q : SameKey(pp[i], q))
                  IN  [j \in 1..Len(hit) |->
                         [gameId |-> pp[i].gameId, nflPlayId |-> pp[i].nflPlayId,
                          playerName |-> pp[i].playerName, teamId |-> pp[i].teamId,
                          position |-> pp[i].position, week |-> hit[j].week]]])

\* the player's team per play
me_rows(scoped, player) ==
    LET mine == SelectSeq(scoped, LAMBDA r : NameMatches(r.playerName, player))
    IN  [i \in 1..Len(mine) |->
           [gameId |-> mine[i].gameId, nflPlayId |-> mine[i].nflPlayId,
            playerTeamId |-> mine[i].teamId]]

\* (ann["teamId"] == ann["playerTeamId"]) & (name.str.lower() != player.lower())
IsTeammateExact(r, player) ==
    r.teamId = r.playerTeamId /\ r.playerName # player
IsTeammate(r, player) ==
    r.teamId = r.playerTeamId /\ lower(r.playerName) # lower(player)

\* ann = pp_scoped.merge(me_rows); same_team = ann[...]
same_team(scoped, player) ==
    LET me  == me_rows(scoped, player)
        ann == Concat([i \in 1..Len(scoped) |->
                         LET hit == SelectSeq(me, LAMBDA m : SameKey(scoped[i], m))
                         IN  [j \in 1..Len(hit) |->
                                [playerName |-> scoped[i].playerName,
                                 teamId |-> scoped[i].teamId,
                                 playerTeamId |-> hit[j].playerTeamId]]])
    IN  SelectSeq(ann, LAMBDA r : IsTeammate(r, player))

\* the values of s that occur most often
Modes(s) ==
    {v \in Range(s) :
        \A w \in Range(s) :
            Len(SelectSeq(s, LAMBDA x : x = w)) <= Len(SelectSeq(s, LAMBDA x : x = v))}

\* the tied value met first in row order
most_common_pos_first(series) ==
    LET s == SelectSeq(series, LAMBDA x : x # NaN)
    IN  IF s = <<>> THEN Unknown
        ELSE s[CHOOSE i \in 1..Len(s) :
                  s[i] \in Modes(s) /\ \A j \in 1..(i - 1) : s[j] \notin Modes(s)]
\* s = series.dropna(); "Unknown" if empty; else s.mode().iat[0], and
\* Series.mode() returns the modes in sorted order
most_common_pos(series) ==
    LET s == SelectSeq(series, LAMBDA x : x # NaN)
    IN  IF s = <<>> THEN Unknown
        ELSE SortedSet(Modes(s))[1]

\* pp_scoped.groupby("playerName")["position"]
PositionsOf(scoped, name) ==
    LET rows == SelectSeq(scoped, LAMBDA r : r.playerName = name)
    IN  [i \in 1..Len(rows) |-> rows[i].position]

\* groupby(["playerName","teamId"]) yields its groups in sorted key order
KeyBefore(k, l) ==
    StrLess(k.playerName, l.playerName)
        \/ (k.playerName = l.playerName /\ k.teamId < l.teamId)
RECURSIVE SortedKeys(_)
SortedKeys(K) ==
    IF K = {} THEN <<>>
    ELSE LET m == CHOOSE k \in K : \A l \in K : l = k \/ KeyBefore(k, l)
         IN  <<m>> \o SortedKeys(K \ {m})

\* sort_values(["count","teammate"], ascending=[False, True])
CopBefore(r, q) ==
    r.count > q.count \/ (r.count = q.count /\ StrLess(r.teammate, q.teammate))
RECURSIVE InsertCop(_, _)
InsertCop(x, xs) ==
    IF xs = <<>> THEN <<x>>
    ELSE IF CopBefore(x, xs[1]) THEN <<x>> \o xs
    ELSE <<xs[1]>> \o InsertCop(x, Tail(xs))
RECURSIVE SortCop(_)
SortCop(xs) ==
    IF xs = <<>> THEN <<>>
    ELSE InsertCop(xs[Len(xs)], SortCop(SubSeq(xs, 1, Len(xs) - 1)))

coplayer_counts_for_weeks(pp, plays, player, weeks) ==
    LET scoped == pp_scoped(pp, plays, weeks)
        mates  == same_team(scoped, player)
        keys   == SortedKeys({[playerName |-> mates[i].playerName,
                               teamId |-> mates[i].teamId] : i \in 1..Len(mates)})
        out    == [i \in 1..Len(keys) |->
                     [teammate |-> keys[i].playerName,
                      teamId   |-> keys[i].teamId,
                      count    |-> Len(SelectSeq(mates, LAMBDA r :
                                      r.playerName = keys[i].playerName
                                         /\ r.teamId = keys[i].teamId)),
                      position |-> most_common_pos(
                                      PositionsOf(scoped, keys[i].playerName))]]
    IN  SortCop(out)

---------------------------------------------------------------------------
(* pass_rush_snaps_for_weeks                                               *)

\* pp_df[name matches][cols].merge(plays_scoped[keys]).drop_duplicates()
SnapRows(pp, plays, player, weeks) ==
    LET scoped == plays_scoped(plays, weeks)
        mine   == SelectSeq(pp, LAMBDA r : NameMatches(r.playerName, player))
    IN  Dedup(Concat([i \in 1..Len(mine) |->
                 LET hit == SelectSeq(scoped, LAMBDA q : SameKey(mine[i], q))
                 IN  [j \in 1..Len(hit) |->
                        [gameId |-> mine[i].gameId, nflPlayId |-> mine[i].nflPlayId,
                         teamId |-> mine[i].teamId, position |-> mine[i].position]]]))

CommaSpace == <<",", " ">>

\* str(p).strip() or "Unknown"
PosLabel(p) == IF strip(p) = <<>> THEN Unknown ELSE strip(p)

pass_rush_snaps_for_weeks(pp, plays, player, weeks) ==
    LET merged == SnapRows(pp, plays, player, weeks)
        tids   == {merged[i].teamId : i \in 1..Len(merged)} \ {NaNNum}
        ps     == {merged[i].position : i \in 1..Len(merged)} \ {NaN}
    IN  [snaps |-> Len(merged),
         teams |-> IF merged # <<>>
                   THEN join(CommaSpace, SortedSet({str(t) : t \in tids}))
                   ELSE <<>>,
         poss  |-> IF merged # <<>>
                   THEN join(CommaSpace, SortedSet({PosLabel(p) : p \in ps}))
                   ELSE <<>>]

---------------------------------------------------------------------------
(* The explorer as a state machine: every widget change reruns the script  *)

MaxPpRows == 3         \* rows of the participation table

Play(g, p, w, t) == [gameId |-> g, nflPlayId |-> p, week |-> w, nflPlayType |-> t]
Part(p, n, t, pos) ==
    [gameId |-> 1, nflPlayId |-> p, playerName |-> n, teamId |-> t, position |-> pos]

\* Play catalogs: out of key order; with a missing week, a missing type, a
\* play that is neither pass nor rush and another game; with a repeated key
CatA == << Play(1, 2, 2, RUSH), Play(1, 1, 1, PASS_SACK) >>
CatB == << Play(1, 1, NaNNum, RUSH), Play(2, 1, 1, PUNT), Play(1, 2, 1, NaN) >>
CatC == << Play(1, 1, 1, RUSH), Play(1, 1, 1, PASS) >>
Catalogs == {CatA, CatB, CatC}

Al == <<"A", "l">>
al == <<"a", "l">>
Bo == <<"B", "o">>
QB == <<"Q", "B">>
WR == <<"W", "R">>
Blank == <<" ">>

\* Participation rows: one player spelled in two cases, a second player
\* on either team
NameRows ==
    {Part(p, n[1], n[2], QB) :
        p \in {1, 2}, n \in {<<Al, 1>>, <<al, 1>>, <<Bo, 1>>, <<Bo, 2>>}}
\* Participation rows: two players of one team, positions present, blank
\* and missing
PosRows ==
    {Part(p, n[1], 1, n[2]) :
        p \in {1, 2},
        n \in {<<Al, QB>>, <<Al, Blank>>, <<Bo, QB>>, <<Bo, WR>>, <<Bo, NaN>>}}

NoPlayer == <<>>

\* all_names = sorted(pp_df["playerName"].dropna().unique())
AllNames(pp) == {pp[i].playerName : i \in 1..Len(pp)} \ {NaN}

\* the three views of one script run; nothing is computed before a player
\* is chosen (st.stop())
Views(pp, plays, player, weeks) ==
    IF player = NoPlayer
    THEN [snap |-> [snaps |-> 0, teams |-> <<>>, poss |-> <<>>],
          cop |-> <<>>, plays |-> <<>>]
    ELSE [snap  |-> pass_rush_snaps_for_weeks(pp, plays, player, weeks),
          cop   |-> coplayer_counts_for_weeks(pp, plays, player, weeks),
          plays |-> get_player_plays(plays, pp, player, weeks)]

Show(v) ==
    /\ snaps' = v.snap.snaps
    /\ teams' = v.snap.teams
    /\ poss' = v.snap.poss
    /\ cop' = v.cop
    /\ plays_involving' = v.plays

InitTables(rows) ==
    /\ plays_df \in Catalogs
    /\ pp_df \in SeqsUpTo(rows, MaxPpRows)
    /\ weeks_selected = get_week_options(plays_df)
    /\ player_name = NoPlayer
    /\ snaps = 0
    /\ teams = <<>>
    /\ poss = <<>>
    /\ cop = <<>>
    /\ plays_involving = <<>>

\* the week multiselect changes
SelectWeeks(ws) ==
    /\ ws # weeks_selected
    /\ weeks_selected' = ws
    /\ Show(Views(pp_df, plays_df, player_name, ws))
    /\ UNCHANGED <<plays_df, pp_df, player_name, loadVars, nameVars>>

\* a player is chosen from the suggestions
PickPlayer(p) ==
    /\ p # player_name
    /\ player_name' = p
    /\ Show(Views(pp_df, plays_df, p, weeks_selected))
    /\ UNCHANGED <<plays_df, pp_df, weeks_selected, loadVars, nameVars>>

NextQuery ==
    \/ \E ws \in SUBSET get_week_options(plays_df) : SelectWeeks(ws)
    \/ \E p \in AllNames(pp_df) : PickPlayer(p)

---------------------------------------------------------------------------
(* Specifications                                                          *)

IdleLoad ==
    /\ disk = [dir |-> FALSE, now |-> 0, files |-> [f \in FileSet |-> NoFile]]
    /\ csv_cache = {}
    /\ all_cache = {}
    /\ loaded = <<>>
    /\ halted = FALSE
    /\ cleared = FALSE
IdleNames ==
    /\ all_names = <<>>
    /\ limit = DefaultLimit
    /\ query = <<>>
    /\ suggestions = <<>>
IdleQuery == InitTables({}) /\ plays_df = CatA

InitL == InitLoad /\ IdleNames /\ IdleQuery
InitN == IdleLoad /\ InitNames /\ IdleQuery
InitQ == IdleLoad /\ IdleNames /\ InitTables(NameRows)
InitP == IdleLoad /\ IdleNames /\ InitTables(PosRows)

\* the loader and its caches
SpecLoad == InitL /\ [][NextLoad]_vars

\* the suggester
SpecNames == InitN /\ [][NextNames]_vars

\* the aggregations, over tables that vary the names and teams
SpecQuery == InitQ /\ [][NextQuery]_vars

\* the aggregations, over tables that vary the positions
SpecPos == InitP /\ [][NextQuery]_vars

---------------------------------------------------------------------------
(* Properties                                                              *)

Chosen == player_name # NoPlayer

\* C1: when the selected week set is empty, get_player_plays returns no
\* plays, coplayer_counts_for_weeks no teammates and
\* pass_rush_snaps_for_weeks 0 snaps with empty team and position strings.
C1_EmptyWeeksShowNothing ==
    (Chosen /\ weeks_selected = {}) =>
        /\ plays_involving = <<>>
        /\ cop = <<>>
        /\ snaps = 0 /\ teams = <<>> /\ poss = <<>>

EmptyTable == [columns |-> <<>>, data |-> 0]
RequiredPresent(fs) == fs[PlaysFile].exists /\ fs[PpFile].exists

\* C2: with no manual cache clear, every load_all call that returns gives
\* the tables parsed from the files as they are at the time of the call.
C2_LoadAllNeverStale ==
    [][(~cleared /\ RunFolder /\ ~halted') => loaded' = FreshTables(disk)]_vars

\* C3: with plays_unique and play_players present and players_index
\* missing, loading succeeds with an empty index table and the session is
\* not halted, from the folder and from uploads alike.
C3_MissingIndexTolerated ==
    [][/\ (RunFolder /\ disk.dir /\ RequiredPresent(disk.files)
              /\ ~disk.files[IdxFile].exists)
          => (~halted' /\ Len(loaded') = Len(Files) /\ loaded'[Len(Files)] = EmptyTable)
       /\ \A up \in Uploads :
            (RunUpload(up) /\ RequiredPresent(up) /\ ~up[IdxFile].exists)
            => (~halted' /\ Len(loaded') = Len(Files)
                   /\ loaded'[Len(Files)] = EmptyTable)]_vars

\* each player (names compared case-insensitively) has one team per play
OneTeamPerPlay(pp) ==
    \A i, j \in 1..Len(pp) :
        (SameKey(pp[i], pp[j]) /\ NameMatches(pp[i].playerName, pp[j].playerName))
            => pp[i].teamId = pp[j].teamId

\* C4: coplayer_counts_for_weeks is symmetric: if the result for A lists B
\* with teamId T and count N, the result for B over the same plays lists A
\* with teamId T and count N.
C4_CoplayerSymmetric ==
    (Chosen /\ OneTeamPerPlay(pp_df)) =>
        \A i \in 1..Len(cop) :
            \E r \in Range(coplayer_counts_for_weeks(
                              pp_df, plays_df, cop[i].teammate, weeks_selected)) :
                /\ NameMatches(r.teammate, player_name)
                /\ r.teamId = cop[i].teamId
                /\ r.count = cop[i].count

\* C5: no row of the coplayer_counts_for_weeks result names the queried
\* player as a teammate, names compared case-insensitively.
C5_NeverOwnTeammate ==
    \A i \in 1..Len(cop) : lower(cop[i].teammate) # lower(player_name)

\* the player is spelled in another case on an in-scope row, next to a
\* real teammate
C5_Witness ==
    /\ Chosen
    /\ cop # <<>>
    /\ \E r \in Range(pp_scoped(pp_df, plays_df, weeks_selected)) :
          r.playerName # player_name /\ NameMatches(r.playerName, player_name)

IsPrefixMatch(nm) == startswith(lower(nm), lower(normalize(query)))

\* C6: get_player_suggestions returns the prefix matches in alphabetical
\* order and ahead of every fuzzy-only match whatever the order of the
\* known names; "Al" against Alice, Albert, Bob gives Albert, Alice.
C6_PrefixAlphabeticalFirst ==
    /\ \A i, j \in 1..Len(suggestions) :
          (i < j /\ IsPrefixMatch(suggestions[j]))
              => /\ IsPrefixMatch(suggestions[i])
                 /\ ~StrLess(suggestions[j], suggestions[i])
    /\ (query = <<"A", "l">> /\ Range(all_names) = {Alice, Albert, Bob}
           /\ Len(all_names) = Cardinality(KnownNames))
          => suggestions = <<Albert, Alice>>

Contains(s, sub) ==
    \E i \in 0..(Len(s) - Len(sub)) : SubSeq(s, i + 1, i + Len(sub)) = sub

\* C7: when an in-scope row of the player has a missing or blank position
\* the position string contains "Unknown"; when all are missing it is
\* "Unknown".
C7_MissingPositionUnknown ==
    Chosen =>
        LET rows == SnapRows(pp_df, plays_df, player_name, weeks_selected)
        IN  /\ (\E i \in 1..Len(rows) :
                   rows[i].position = NaN \/ strip(rows[i].position) = <<>>)
                  => Contains(poss, Unknown)
            /\ (rows # <<>> /\ \A i \in 1..Len(rows) : rows[i].position = NaN)
                  => poss = Unknown

\* the positions of a teammate's in-scope rows, in row order
ScopedPositions(name) ==
    PositionsOf(pp_scoped(pp_df, plays_df, weeks_selected), name)
Present(series) == SelectSeq(series, LAMBDA x : x # NaN)

\* C8 as stated: among tied most frequent positions the one reported is
\* the one that occurs first in row order; "Unknown" without any.
C8_TieFirstInRowOrder ==
    \A i \in 1..Len(cop) :
        cop[i].position = most_common_pos_first(ScopedPositions(cop[i].teammate))

\* C8: among tied most frequent non-missing positions the one reported is
\* the smallest in string order; "Unknown" without any.
C8_TieSmallest ==
    \A i \in 1..Len(cop) :
        LET s == Present(ScopedPositions(cop[i].teammate))
        IN  IF s = <<>> THEN cop[i].position = Unknown
            ELSE /\ cop[i].position \in Modes(s)
                 /\ \A m \in Modes(s) :
                       m = cop[i].position \/ StrLess(cop[i].position, m)

\* a teammate whose tied positions start, in row order, with one that is
\* not the smallest
C8_Witness ==
    \E i \in 1..Len(cop) :
        LET s == Present(ScopedPositions(cop[i].teammate))
        IN  /\ Cardinality(Modes(s)) > 1
            /\ s[1] \in Modes(s)
            /\ s[1] # cop[i].position

UniqueKeys(plays) ==
    \A i, j \in 1..Len(plays) : SameKey(plays[i], plays[j]) => i = j

\* C9: with unique catalog keys get_player_plays returns each play once,
\* and every returned play is a pass/rush play of a selected week on which
\* the player has a participation record.
C9_PlaysOncePassRushSelected ==
    (Chosen /\ UniqueKeys(plays_df)) =>
        /\ UniqueKeys(plays_involving)
        /\ \A i \in 1..Len(plays_involving) :
              /\ pr_filter(<<plays_involving[i]>>) # <<>>
              /\ plays_involving[i].week \in weeks_selected
              /\ \E k \in 1..Len(pp_df) :
                    /\ SameKey(pp_df[k], plays_involving[i])
                    /\ NameMatches(pp_df[k].playerName, player_name)

\* C10: the snap count of pass_rush_snaps_for_weeks equals the number of
\* plays get_player_plays returns (over a catalog with unique keys).
C10_SnapsEqualPlays ==
    (Chosen /\ UniqueKeys(plays_df)) => snaps = Len(plays_involving)

===========================================================================
